---- MODULE Spec2Model ----
(***************************************************************************)
(* Model of rp_parts_pull.py: the create -> download polling loop of       *)
(* main(), the steps of main() after the loop, and the keyed CSV differ    *)
(* (load_csv_as_map, csv_diff).                                            *)
(*                                                                         *)
(* Time is in seconds.  `now` is the wall clock read by time.time() and    *)
(* datetime.now(); a calendar day is the day number now \div 86400, and    *)
(* yyyymmdd() of a datetime is modelled by that day number (the format is  *)
(* injective on days).  Strings whose whitespace matters (CSV cells) are   *)
(* sequences of one-character strings, so that str.strip() is computed.    *)
(***************************************************************************)
EXTENDS Integers, Sequences, FiniteSets, TLC

(***************************************************************************)
(* Bounds of the model.                                                    *)
(***************************************************************************)
MaxTimeoutMins == 3
MaxPollMins == 2
MaxPollSecs == 90
MaxOversleep == 1
MaxRows == 2
MaxWideRows == 1
MaxRerunRows == 2

(***************************************************************************)
(* Program constants.                                                      *)
(***************************************************************************)
CutoffHour == 6
SleepFloor == 60
HttpOk == 200

VARIABLES
  \* ---- command line (argparse, lines 127-139)
  create,           \* args.create
  args_date,        \* args.date: <<>> when absent (falsy), <<d>> for a date
  interval_s,       \* args.poll_mins*60
  timeout_s,        \* args.timeout_mins*60
  \* ---- the clock
  now,              \* time.time() / datetime.now(), in seconds
  \* ---- main()'s locals
  pc,               \* position in main()
  gen_date,         \* target date (a day number)
  tried_yesterday,
  start_time,
  attempts,
  success,
  last_payload,     \* kind of the last poll's payload, "None" before any poll
  files,            \* unzip_all's list of member paths
  csv_path,         \* chosen member of the archive, <<>> when none
  \* ---- metadata and process exit
  result,           \* metadata["result"]
  create_http_status, \* metadata["create_http_status"], 0 while unset
  metadata_writes,  \* number of run_*.json records written
  exit_status,      \* "running", "ok", "error" (SystemExit with a message)
  \* ---- observation of the run
  submit_calls,     \* calls of the create endpoint
  sleeps,           \* calls of time.sleep
  loop_exit,        \* which exit of the loop was taken
  seen,             \* kinds of the failed polls so far
  polled_dates,     \* the dates the polls were made for, in order
  rolled_at,        \* attempts value at which the rollback fired, 0 if not
  \* ---- csv_diff: its arguments, its result, and the files on disk
  old_csv,          \* content of the old file: [header, rows]
  new_csv,          \* content of the new file
  key_col,
  fields_to_compare,\* NoneVal when absent, else a list of column names
  diff_info,        \* what csv_diff computed
  out_files         \* delta files on disk: name -> content

vars == << create, args_date, interval_s, timeout_s, now, pc, gen_date,
           tried_yesterday, start_time, attempts, success, last_payload,
           files, csv_path, result, create_http_status, metadata_writes, exit_status, submit_calls,
           sleeps, loop_exit, seen, polled_dates, rolled_at, old_csv,
           new_csv, key_col, fields_to_compare, diff_info, out_files >>

(***************************************************************************)
(* Clock and date helpers.                                                 *)
(***************************************************************************)
\* yyyymmdd(dt): the calendar day of a clock reading, as a day number.
yyyymmdd(t) == t \div 86400

\* datetime.now().hour
hour(t) == (t % 86400) \div 3600

\* yyyymmdd(datetime.now() - timedelta(days=1))
yesterday(t) == yyyymmdd(t - 86400)

\* variant: the timeout taken in minutes where seconds are meant
time_left_Minutes == (timeout_s \div 60) - (now - start_time)

\* time_left(): args.timeout_mins*60 - (time.time() - start_time)
time_left == timeout_s - (now - start_time)

\* variant: no floor under the interval
sleep_s_NoFloor == interval_s

\* variant: the sleep is cut to the time remaining
sleep_s_Clipped ==
  LET m == IF interval_s > SleepFloor THEN interval_s ELSE SleepFloor
  IN IF time_left < m THEN time_left ELSE m

\* max(60, args.poll_mins*60)
sleep_s == IF interval_s > SleepFloor THEN interval_s ELSE SleepFloor

(***************************************************************************)
(* Strings and CSV files.                                                  *)
(* A cell is a sequence of one-character strings; a column name is a       *)
(* string.  A file is [header |-> names, rows |-> cells per row].          *)
(***************************************************************************)
\* Python's None, for a missing cell and for an absent argument
NoneVal == << "<None>" >>

\* x or ""
OrEmpty(x) == IF x = NoneVal THEN <<>> ELSE x

\* truth value of a list or string argument
Truthy(x) == x # NoneVal /\ x # <<>>

RECURSIVE LStrip(_)
LStrip(s) == IF s # <<>> /\ Head(s) = " " THEN LStrip(Tail(s)) ELSE s

RECURSIVE RStrip(_)
RStrip(s) ==
  IF s # <<>> /\ s[Len(s)] = " " THEN RStrip(SubSeq(s, 1, Len(s) - 1)) ELSE s

\* str.strip()
Strip(s) == RStrip(LStrip(s))

Range(q) == {q[i] : i \in 1 .. Len(q)}

\* csv.DictReader: the dict of one row; a repeated column name keeps its last
\* cell, a column the row is too short for is None
RowDict(header, row) ==
  [c \in Range(header) |->
     LET i == CHOOSE j \in 1 .. Len(header) :
                /\ header[j] = c
                /\ \A m \in (j + 1) .. Len(header) : header[m] # c
     IN IF i <= Len(row) THEN row[i] ELSE NoneVal]

\* row.get(c)
Get(d, c) == IF c \in DOMAIN d THEN d[c] ELSE NoneVal

\* (row.get(c) or "").strip()
Cell(d, c) == Strip(OrEmpty(Get(d, c)))

\* line 56: if k and k not in rows
Keeps(k, rows) == k # <<>> /\ k \notin DOMAIN rows

\* variant: a later row with the same key replaces the stored one
RECURSIVE LoadRows_LastWins(_, _, _, _)
LoadRows_LastWins(file, key, i, rows) ==
  IF i > Len(file.rows) THEN rows
  ELSE IF file.rows[i] = <<>> THEN LoadRows_LastWins(file, key, i + 1, rows)
  ELSE LET row == RowDict(file.header, file.rows[i])
           k == Cell(row, key)
       IN IF k # <<>>
            THEN LoadRows_LastWins(file, key, i + 1, (k :> row) @@ rows)
            ELSE LoadRows_LastWins(file, key, i + 1, rows)

\* variant: the loop stops at the first row without a key
RECURSIVE LoadRows_StopAtEmpty(_, _, _, _)
LoadRows_StopAtEmpty(file, key, i, rows) ==
  IF i > Len(file.rows) THEN rows
  ELSE IF file.rows[i] = <<>> THEN LoadRows_StopAtEmpty(file, key, i + 1, rows)
  ELSE LET row == RowDict(file.header, file.rows[i])
           k == Cell(row, key)
       IN IF k = <<>> THEN rows
          ELSE IF k \notin DOMAIN rows
            THEN LoadRows_StopAtEmpty(file, key, i + 1, rows @@ (k :> row))
            ELSE LoadRows_StopAtEmpty(file, key, i + 1, rows)

\* lines 53-57: the loop over the rows; DictReader skips rows without cells
RECURSIVE LoadRows(_, _, _, _)
LoadRows(file, key, i, rows) ==
  IF i > Len(file.rows) THEN rows
  ELSE IF file.rows[i] = <<>> THEN LoadRows(file, key, i + 1, rows)
  ELSE LET row == RowDict(file.header, file.rows[i])
           k == Cell(row, key)
       IN IF Keeps(k, rows)
            THEN LoadRows(file, key, i + 1, rows @@ (k :> row))
            ELSE LoadRows(file, key, i + 1, rows)

\* variant: the header is not checked for the key column
load_csv_as_map_NoCheck(file, key) ==
  [raised |-> FALSE, rows |-> LoadRows(file, key, 1, << >>), cols |-> file.header]

\* load_csv_as_map: raises when the key column is not in the header
load_csv_as_map(file, key) ==
  IF key \notin Range(file.header)
    THEN [raised |-> TRUE, rows |-> << >>, cols |-> file.header]
    ELSE [raised |-> FALSE, rows |-> LoadRows(file, key, 1, << >>),
          cols |-> file.header]

\* lines 65-68; set_order is the iteration order of a set of column names
CmpFields(old_cols, new_cols, key, fields, set_order) ==
  IF Truthy(fields)
    THEN SelectSeq(fields, LAMBDA c : c \in Range(old_cols) /\ c \in Range(new_cols))
    ELSE SelectSeq(set_order,
                   LAMBDA c : c \in Range(old_cols) \cap Range(new_cols) /\ c # key)

\* variant: the new value is compared unstripped
Differs_RawNew(old_row, new_row, c) ==
  Cell(old_row, c) # OrEmpty(Get(new_row, c))

\* line 76: a != b on the stripped cells
Differs(old_row, new_row, c) == Cell(old_row, c) # Cell(new_row, c)

\* variant: once a field differs, every compared field is recorded
Diffs_AllFields(old_row, new_row, cmp_fields) ==
  LET D == IF \E c \in Range(cmp_fields) : Differs(old_row, new_row, c)
             THEN Range(cmp_fields) ELSE {}
  IN [c \in D |-> << Cell(old_row, c), Cell(new_row, c) >>]

\* lines 72-79: the diffs of one shared key
Diffs(old_row, new_row, cmp_fields) ==
  LET D == {c \in Range(cmp_fields) : Differs(old_row, new_row, c)}
  IN [c \in D |-> << Cell(old_row, c), Cell(new_row, c) >>]

\* variant: every key of the new file counts as new
NewKeys_All(old_map, new_map) == DOMAIN new_map

\* line 63
NewKeys(old_map, new_map) == DOMAIN new_map \ DOMAIN old_map

RemKeys(old_map, new_map) == DOMAIN old_map \ DOMAIN new_map

\* line 64
Shared(old_map, new_map) == DOMAIN new_map \cap DOMAIN old_map

\* lines 70-79
ChangedRows(old_map, new_map, cmp_fields) ==
  {[key |-> k, diffs |-> Diffs(old_map[k], new_map[k], cmp_fields)] :
     k \in {x \in Shared(old_map, new_map) :
              DOMAIN Diffs(old_map[x], new_map[x], cmp_fields) # {}}}

\* code point order of the characters used
Alphabet == << " ", "1", "2", "A", "B", "x", "y" >>

Rank(ch) == CHOOSE i \in 1 .. Len(Alphabet) : Alphabet[i] = ch

RECURSIVE StrLess(_, _)
StrLess(a, b) ==
  IF b = <<>> THEN FALSE
  ELSE IF a = <<>> THEN TRUE
  ELSE IF Head(a) # Head(b) THEN Rank(Head(a)) < Rank(Head(b))
  ELSE StrLess(Tail(a), Tail(b))

\* sorted(keys)
RECURSIVE Sorted(_)
Sorted(S) ==
  IF S = {} THEN <<>>
  ELSE LET m == CHOOSE x \in S : \A y \in S \ {x} : StrLess(x, y)
       IN << m >> \o Sorted(S \ {m})

\* lines 92-94: a row of the changed file, "" where a field did not differ
RECURSIVE ChangedCells(_, _)
ChangedCells(r, cmp_fields) ==
  IF cmp_fields = <<>> THEN <<>>
  ELSE LET c == Head(cmp_fields)
       IN (IF c \in DOMAIN r.diffs THEN r.diffs[c] ELSE << <<>>, <<>> >>)
            \o ChangedCells(r, Tail(cmp_fields))

\* a column of an output file: a column name of the input plus a suffix
OutName(c, suffix) == << c, suffix >>

RECURSIVE PairNames(_)
PairNames(cmp_fields) ==
  IF cmp_fields = <<>> THEN <<>>
  ELSE << OutName(Head(cmp_fields), "_old"), OutName(Head(cmp_fields), "_new") >>
         \o PairNames(Tail(cmp_fields))

\* variant: the changed file is written only when a row changed
Outputs_SkipEmptyChanged(key, new_keys, rem_keys, changed_rows, cmp_fields) ==
  IF changed_rows # {}
    THEN [new |-> [header |-> << OutName(key, "") >>, rows |-> Sorted(new_keys)],
          removed |-> [header |-> << OutName(key, "") >>, rows |-> Sorted(rem_keys)],
          changed |->
            [header |-> << OutName(key, "") >> \o PairNames(cmp_fields),
             rows |-> {<< r.key >> \o ChangedCells(r, cmp_fields) : r \in changed_rows}]]
    ELSE [new |-> [header |-> << OutName(key, "") >>, rows |-> Sorted(new_keys)],
          removed |-> [header |-> << OutName(key, "") >>, rows |-> Sorted(rem_keys)]]

\* lines 86-96: the three files written
Outputs(key, new_keys, rem_keys, changed_rows, cmp_fields) ==
  [new |-> [header |-> << OutName(key, "") >>, rows |-> Sorted(new_keys)],
   removed |-> [header |-> << OutName(key, "") >>, rows |-> Sorted(rem_keys)],
   changed |->
     IF changed_rows # {}
       THEN [header |-> << OutName(key, "") >> \o PairNames(cmp_fields),
             rows |-> {<< r.key >> \o ChangedCells(r, cmp_fields) : r \in changed_rows}]
       ELSE [header |-> << OutName(key, "") >>, rows |-> {}]]

NoFiles == [n \in {} |-> 0]

\* csv_diff: its return value, whether it raised, and the files it wrote
csv_diff(old, new, key, fields, set_order) ==
  LET o == load_csv_as_map(old, key)
      n == load_csv_as_map(new, key)
      cmp_fields == CmpFields(o.cols, n.cols, key, fields, set_order)
      new_keys == NewKeys(o.rows, n.rows)
      rem_keys == RemKeys(o.rows, n.rows)
      changed_rows == ChangedRows(o.rows, n.rows, cmp_fields)
  IN IF o.raised \/ n.raised
       THEN [raised |-> TRUE, new |-> {}, removed |-> {}, changed |-> {},
             compare_fields |-> <<>>, written |-> NoFiles]
       ELSE [raised |-> FALSE, new |-> new_keys, removed |-> rem_keys,
             changed |-> changed_rows, compare_fields |-> cmp_fields,
             written |-> Outputs(key, new_keys, rem_keys, changed_rows, cmp_fields)]

(***************************************************************************)
(* Inputs.                                                                 *)
(***************************************************************************)
PollMins == {-1, 0, MaxPollMins}
TimeoutMins == {-1, 0, 1, MaxTimeoutMins}
\* start of the run on day 1: 00:00:00, 05:59:59, 06:00:00, 23:59:59
StartClocks == {86400 + s : s \in {0, 21599, 21600, 86399}}
ExplicitDates == {5}
\* time an HTTP call takes, and time.sleep's excess over the request
CallSecs == {0, MaxPollSecs}
Oversleep == {0, MaxOversleep}
CreateCodes == {HttpOk, 500, -1}
\* try_download: ok with a payload, a JSON error body, or transport failure
Outcomes == {"Ready", "NotReady", "TransportError"}

\* members of an archive: [stem, suffix] as pathlib splits a name
Csv1 == [stem |-> "parts", suffix |-> ".csv"]
Csv2 == [stem |-> "extra", suffix |-> ".CSV"]
Txt == [stem |-> "readme", suffix |-> ".txt"]
Archives == {<< >>, << Txt >>, << Csv1 >>, << Csv1, Csv2 >>, << Csv2, Txt, Csv1 >>}

\* the files main() hands to csv_diff in the model of a whole run
WithKey == [header |-> << "k", "f" >>, rows |-> << << << "A" >>, << "1" >> >> >>]
WithoutKey == [header |-> << "f", "g" >>, rows |-> << << << "1" >>, << "x" >> >> >>]
MainFiles == {WithKey, WithoutKey}

\* the cells a column of an input file may hold
KeyCells == {<<>>, << "A" >>, << "A", " " >>, << "B" >>}
FCells == {<< "1" >>, << " ", "1", " " >>, << "2" >>}
GCells == {<< "x" >>, << "y" >>}
CellsOf(c) == IF c = "k" THEN KeyCells ELSE IF c = "f" THEN FCells ELSE GCells

RowsOf(header) ==
  {r \in [1 .. Len(header) -> KeyCells \cup FCells \cup GCells] :
     \A i \in 1 .. Len(header) : r[i] \in CellsOf(header[i])}

SeqsUpTo(S, n) == UNION {[1 .. m -> S] : m \in 0 .. n}

FilesWith(header, n) ==
  {[header |-> header, rows |-> rs] : rs \in SeqsUpTo(RowsOf(header), n)}

\* input files: with the key column k and one or two more columns, and
\* without the key column
Files ==
  FilesWith(<< "k", "f" >>, MaxRows)
    \cup FilesWith(<< "k", "f", "g" >>, MaxWideRows)
    \cup FilesWith(<< "f", "g" >>, MaxWideRows)

\* args.diff_fields: absent, empty, or a list
FieldLists == {NoneVal, <<>>, << "g", "f" >>}

\* iteration orders of a set of column names
SetOrders == {<< "f", "g", "k" >>, << "k", "g", "f" >>}

\* the delta files an earlier run with the same prefix left on disk: the
\* outputs of csv_diff for one new key and one changed row
StaleOld == [header |-> << "k", "f" >>, rows |-> << << << "A" >>, << "1" >> >> >>]
StaleNew ==
  [header |-> << "k", "f" >>,
   rows |-> << << << "A" >>, << "2" >> >>, << << "B" >>, << "1" >> >> >>]
Stale == csv_diff(StaleOld, StaleNew, "k", NoneVal, << "f", "g", "k" >>).written

\* what is on disk before a call: nothing, or (for inputs of at most
\* MaxRerunRows rows) also the files of the earlier run
DiskBefore(old, new) ==
  IF Len(old.rows) + Len(new.rows) <= MaxRerunRows THEN {NoFiles, Stale}
  ELSE {NoFiles}

NoDiff == [raised |-> FALSE, new |-> {}, removed |-> {}, changed |-> {},
           compare_fields |-> <<>>, written |-> NoFiles]

\* csv_diff has not been called
DifferIdle ==
  /\ old_csv = [header |-> <<>>, rows |-> <<>>]
  /\ new_csv = [header |-> <<>>, rows |-> <<>>]
  /\ key_col = "k"
  /\ fields_to_compare = NoneVal
  /\ diff_info = NoDiff
  /\ out_files = NoFiles

(***************************************************************************)
(* The conditions of the loop's continuation policy (lines 171-184).       *)
(***************************************************************************)
\* variant: only a transport failure counts as a failed create
CreateFailed_OnlyTransport(code) == code = -1

\* line 154: the create response is not a success
CreateFailed(code) == code # HttpOk

\* variant: any JSON answer counts as ready
IsOk_AnyJson(outcome) == outcome # "TransportError"

\* line 171: if ok
IsOk(outcome) == outcome = "Ready"

\* variant: the test of args.create inverted
NoRetry_Inverted == create

\* line 177: if not args.create: break
NoRetry == ~create

\* variant: the rollback is not limited to once
RollbackDue_Repeats == args_date = <<>> /\ hour(now) < CutoffHour

\* variant: the explicit date is not looked at
RollbackDue_AnyDate == ~tried_yesterday /\ hour(now) < CutoffHour

\* line 178: if not args.date and not tried_yesterday and hour < 6
RollbackDue ==
  /\ args_date = <<>>
  /\ ~tried_yesterday
  /\ hour(now) < CutoffHour

\* variant: a remaining time of exactly 0 is not a timeout
TimedOut_Strict == time_left < 0

\* line 184: if left <= 0
TimedOut == time_left <= 0

(***************************************************************************)
(* main(): create, then the polling loop.                                  *)
(***************************************************************************)
Observers == << submit_calls, sleeps, loop_exit, seen, polled_dates, rolled_at >>
Args == << create, args_date, interval_s, timeout_s >>
Locals == << gen_date, tried_yesterday, start_time, attempts, success,
             last_payload, files, csv_path >>
Differ == << old_csv, new_csv, key_col, fields_to_compare, diff_info, out_files >>
Meta == << result, create_http_status, metadata_writes, exit_status >>

InitRun ==
  /\ create \in BOOLEAN
  /\ args_date \in {<<>>} \cup {<<d>> : d \in ExplicitDates}
  /\ now \in StartClocks
  /\ pc = "start"
  /\ gen_date = 0
  /\ tried_yesterday = FALSE
  /\ start_time = 0
  /\ attempts = 0
  /\ success = FALSE
  /\ last_payload = "None"
  /\ files = <<>>
  /\ csv_path = <<>>
  /\ result = "UNKNOWN"
  /\ create_http_status = 0
  /\ metadata_writes = 0
  /\ exit_status = "running"
  /\ submit_calls = 0
  /\ sleeps = 0
  /\ loop_exit = "none"
  /\ seen = {}
  /\ polled_dates = <<>>
  /\ rolled_at = 0
  /\ DifferIdle

\* The command line gives the interval and the timeout in whole minutes.
Init ==
  /\ InitRun
  /\ interval_s \in {m * 60 : m \in PollMins}
  /\ timeout_s \in {m * 60 : m \in TimeoutMins}

\* lines 150-158
Create ==
  /\ pc = "start"
  /\ create
  /\ \E code \in CreateCodes, d \in CallSecs :
       /\ now' = now + d
       /\ submit_calls' = submit_calls + 1
       /\ create_http_status' = code
       /\ IF CreateFailed(code)
            THEN /\ result' = "CREATE_HTTP_ERROR"
                 /\ metadata_writes' = metadata_writes + 1
                 /\ exit_status' = "error"
                 /\ loop_exit' = "create_failed"
                 /\ pc' = "exit"
            ELSE /\ pc' = "begin"
                 /\ UNCHANGED << result, metadata_writes, exit_status, loop_exit >>
  /\ UNCHANGED << Args, Locals, Differ, sleeps, seen, polled_dates, rolled_at >>

\* lines 160-164
Begin ==
  /\ \/ pc = "begin"
     \/ pc = "start" /\ ~create
  /\ gen_date' = IF args_date # <<>> THEN args_date[1] ELSE yyyymmdd(now)
  /\ tried_yesterday' = FALSE
  /\ start_time' = now
  /\ attempts' = 0
  /\ success' = FALSE
  /\ last_payload' = "None"
  /\ pc' = "poll"
  /\ UNCHANGED << Args, now, files, csv_path, Meta, Observers, Differ >>

\* lines 167-171
Poll ==
  /\ pc = "poll"
  /\ attempts' = attempts + 1
  /\ polled_dates' = Append(polled_dates, gen_date)
  /\ \E outcome \in Outcomes, d \in CallSecs :
       /\ now' = now + d
       /\ last_payload' = outcome
       /\ IF IsOk(outcome)
            THEN /\ success' = TRUE
                 /\ loop_exit' = "ready"
                 /\ pc' = "after"
                 /\ seen' = seen
            ELSE /\ pc' = "check"
                 /\ seen' = seen \cup {outcome}
                 /\ UNCHANGED << success, loop_exit >>
  /\ UNCHANGED << Args, gen_date, tried_yesterday, start_time, files, csv_path,
                  Meta, Differ, submit_calls, sleeps, rolled_at >>

\* line 177
BreakNoCreate ==
  /\ pc = "check"
  /\ NoRetry
  /\ loop_exit' = "not_ready"
  /\ pc' = "after"
  /\ UNCHANGED << Args, now, Locals, Meta, Differ, submit_calls, sleeps, seen,
                  polled_dates, rolled_at >>

\* lines 178-181
Rollback ==
  /\ pc = "check"
  /\ ~NoRetry
  /\ RollbackDue
  /\ gen_date' = yesterday(now)
  /\ tried_yesterday' = TRUE
  /\ rolled_at' = attempts
  /\ pc' = "poll"
  /\ UNCHANGED << Args, now, start_time, attempts, success, last_payload,
                  files, csv_path, Meta, Differ, submit_calls, sleeps,
                  loop_exit, seen, polled_dates >>

\* lines 183-184
BreakTimeout ==
  /\ pc = "check"
  /\ ~NoRetry
  /\ ~RollbackDue
  /\ TimedOut
  /\ loop_exit' = "timeout"
  /\ pc' = "after"
  /\ UNCHANGED << Args, now, Locals, Meta, Differ, submit_calls, sleeps, seen,
                  polled_dates, rolled_at >>

\* lines 183-187: time.sleep returns no earlier than asked
Sleep ==
  /\ pc = "check"
  /\ ~NoRetry
  /\ ~RollbackDue
  /\ ~TimedOut
  /\ \E extra \in Oversleep : now' = now + sleep_s + extra
  /\ sleeps' = sleeps + 1
  /\ pc' = "poll"
  /\ UNCHANGED << Args, Locals, Meta, Differ, submit_calls, loop_exit, seen,
                  polled_dates, rolled_at >>

\* lines 189-196
Finish ==
  /\ pc = "after"
  /\ IF ~success
       THEN /\ result' = "DOWNLOAD_NOT_READY"
            /\ metadata_writes' = metadata_writes + 1
            /\ exit_status' = "error"
            /\ pc' = "exit"
       ELSE /\ pc' = "save"
            /\ UNCHANGED << result, metadata_writes, exit_status >>
  /\ UNCHANGED << Args, now, Locals, create_http_status, Observers, Differ >>

\* str.lower() of a suffix
Lower(x) == IF x = ".CSV" THEN ".csv" ELSE x

\* lines 210-212: the loop assigns csv_path at every .csv member
RECURSIVE SelectCsv(_, _)
SelectCsv(paths, chosen) ==
  IF paths = <<>> THEN chosen
  ELSE SelectCsv(Tail(paths),
                 IF Lower(Head(paths).suffix) = ".csv" THEN << Head(paths) >>
                 ELSE chosen)

\* lines 198-203: a payload without fileName, or whose fileContents is not
\* base64, ends the run with an uncaught exception
SaveZip ==
  /\ pc = "save"
  /\ \E wellformed \in BOOLEAN :
       IF wellformed
         THEN /\ result' = "DOWNLOADED"
              /\ pc' = "unzip"
              /\ UNCHANGED exit_status
         ELSE /\ exit_status' = "exception"
              /\ pc' = "exit"
              /\ UNCHANGED result
  /\ UNCHANGED << Args, now, Locals, create_http_status, metadata_writes,
                  Observers, Differ >>

\* lines 205-215; args.no_unzip is read here for the first time
Unzip ==
  /\ pc = "unzip"
  /\ \E no_unzip \in BOOLEAN, archive \in Archives :
       IF no_unzip
         THEN UNCHANGED << files, csv_path >>
         ELSE /\ files' = archive
              /\ csv_path' = SelectCsv(archive, <<>>)
  /\ pc' = "diff"
  /\ UNCHANGED << Args, now, gen_date, tried_yesterday, start_time, attempts,
                  success, last_payload, Meta, Observers, Differ >>

\* lines 217-226; args.diff_old is read here for the first time
DiffStep ==
  /\ pc = "diff"
  /\ \E diff_old \in {"none", "missing", "exists"} :
       IF diff_old = "exists" /\ csv_path # <<>>
         THEN \E old \in MainFiles, new \in MainFiles, ord \in SetOrders :
                LET d == csv_diff(old, new, key_col, fields_to_compare, ord)
                IN /\ old_csv' = old
                   /\ new_csv' = new
                   /\ diff_info' = d
                   /\ out_files' = d.written @@ out_files
                   /\ IF d.raised
                        THEN exit_status' = "error" /\ pc' = "exit"
                        ELSE pc' = "final" /\ UNCHANGED exit_status
         ELSE /\ pc' = "final"
              /\ UNCHANGED << old_csv, new_csv, diff_info, out_files, exit_status >>
  /\ UNCHANGED << Args, now, Locals, result, create_http_status,
                  metadata_writes, Observers, key_col, fields_to_compare >>

\* lines 228-230
Final ==
  /\ pc = "final"
  /\ metadata_writes' = metadata_writes + 1
  /\ exit_status' = "ok"
  /\ pc' = "exit"
  /\ UNCHANGED << Args, now, Locals, result, create_http_status, Observers,
                  Differ >>

Next ==
  \/ Create
  \/ Begin
  \/ Poll
  \/ BreakNoCreate
  \/ Rollback
  \/ BreakTimeout
  \/ Sleep
  \/ Finish
  \/ SaveZip
  \/ Unzip
  \/ DiffStep
  \/ Final

Spec == Init /\ [][Next]_vars

(***************************************************************************)
(* csv_diff on its own: the inputs are drawn, then the function is called. *)
(***************************************************************************)
InitDiff ==
  /\ create = FALSE
  /\ args_date = <<>>
  /\ interval_s = 0
  /\ timeout_s = 0
  /\ now = 0
  /\ pc = "differ"
  /\ gen_date = 0
  /\ tried_yesterday = FALSE
  /\ start_time = 0
  /\ attempts = 0
  /\ success = FALSE
  /\ last_payload = "None"
  /\ files = <<>>
  /\ csv_path = <<>>
  /\ result = "UNKNOWN"
  /\ create_http_status = 0
  /\ metadata_writes = 0
  /\ exit_status = "running"
  /\ submit_calls = 0
  /\ sleeps = 0
  /\ loop_exit = "none"
  /\ seen = {}
  /\ polled_dates = <<>>
  /\ rolled_at = 0
  /\ old_csv \in Files
  /\ new_csv \in Files
  /\ key_col = "k"
  /\ fields_to_compare \in FieldLists
  /\ diff_info = NoDiff
  /\ out_files \in DiskBefore(old_csv, new_csv)

\* lines 60-100: one call of csv_diff
CsvDiffCall ==
  /\ pc = "differ"
  /\ \E ord \in SetOrders :
       LET d == csv_diff(old_csv, new_csv, key_col, fields_to_compare, ord)
       IN /\ diff_info' = d
          /\ out_files' = d.written @@ out_files
          /\ pc' = IF d.raised THEN "raised" ELSE "diffed"
  /\ UNCHANGED << Args, now, Locals, Meta, Observers, old_csv, new_csv,
                  key_col, fields_to_compare >>

DiffNext == CsvDiffCall

DiffSpec == InitDiff /\ [][DiffNext]_vars

\* The process is scheduled until it exits: some step is taken while one is
\* possible.
FairSpec == Spec /\ WF_vars(Next)

\* The polling loop under the poller's contract in seconds: the timeout and
\* the interval need not be whole minutes.
TimeoutSecs == {2, 300}
IntervalSecs == {1, MaxPollMins * 60}

InitSeconds ==
  /\ InitRun
  /\ interval_s \in IntervalSecs
  /\ timeout_s \in TimeoutSecs

SpecSeconds == InitSeconds /\ [][Next]_vars

(***************************************************************************)
(* Properties of the polling loop.                                         *)
(***************************************************************************)
\* the loop has been left by one of its break statements
LoopLeft == loop_exit \in {"ready", "timeout", "not_ready"}

\* time.time() - start_time
Elapsed == now - start_time

\* the polls returned at once and every sleep lasted what was asked
NoOverhead == Elapsed = sleeps * sleep_s

\* C1: without create, a first poll that is not Ready (NotReady or
\* TransportError) ends the loop at once with the not-ready failure: one
\* poll, no sleep, no previous-day rollback, whatever the clock, the date
\* argument and the timeout.
C1_NoCreateOnePoll ==
  (~create /\ seen # {}) =>
     /\ attempts = 1
     /\ Len(polled_dates) = 1
     /\ sleeps = 0
     /\ ~tried_yesterday /\ rolled_at = 0
     /\ pc \in {"check", "after", "exit"}
     /\ pc # "check" => loop_exit = "not_ready" /\ ~success
     /\ pc = "exit" => result = "DOWNLOAD_NOT_READY" /\ exit_status = "error"

C1_Witness ==
  /\ ~create /\ args_date = <<>> /\ hour(now) < CutoffHour
  /\ last_payload = "TransportError"
  /\ loop_exit = "not_ready" /\ pc = "exit" /\ attempts = 1

\* the run of C2: create, every poll NotReady, timeout 2 s, the sleep is the
\* 60 s floor, the rollback did not fire, and the loop has ended
C2_Run ==
  /\ create /\ timeout_s = 2 /\ interval_s <= SleepFloor
  /\ seen = {"NotReady"} /\ ~success
  /\ rolled_at = 0
  /\ LoopLeft

C3_Run ==
  /\ create /\ args_date = <<>> /\ timeout_s = 300 /\ interval_s = 1
  /\ pc \notin {"start", "begin"} /\ create_http_status = HttpOk
  /\ seen \subseteq {"NotReady"}
  /\ NoOverhead

\* C3: in that run the loop does not give up before the third poll, and when
\* the third poll is Ready it has polled exactly 3 times, returns the Ready
\* payload and the elapsed time is within the timeout, with or without the
\* rollback.
C3_ThreePolls ==
  C3_Run =>
     /\ (attempts < 3 /\ ~success) => pc \in {"poll", "check"}
     /\ (attempts = 3 /\ success) =>
          /\ Len(polled_dates) = 3
          /\ last_payload = "Ready" /\ loop_exit = "ready"
          /\ seen = {"NotReady"}
          /\ Elapsed <= timeout_s

C3_Witness ==
  /\ C3_Run /\ attempts = 3 /\ success /\ rolled_at = 1 /\ sleeps = 1
  /\ pc = "save"

\* C4: the create call is made at most once, and only with create; a
\* response that is not a success ends the run as CreateFailed, with no
\* second create call and no poll.
C4_CreateOnce ==
  /\ submit_calls <= 1
  /\ ~create => submit_calls = 0 /\ create_http_status = 0
  /\ attempts > 0 /\ create => submit_calls = 1 /\ create_http_status = HttpOk
  /\ (create_http_status \notin {0, HttpOk}) =>
        /\ pc = "exit" /\ exit_status = "error"
        /\ result = "CREATE_HTTP_ERROR"
        /\ attempts = 0 /\ polled_dates = <<>> /\ sleeps = 0

C4_Witness ==
  /\ create_http_status = 500 /\ pc = "exit" /\ submit_calls = 1

\* the rollback step: tried_yesterday is set
RollbackFires == ~tried_yesterday /\ tried_yesterday'

\* C5: the rollback fires at most once per run, only after a failed poll in
\* a run with create, without explicit date, before 06:00; the next poll
\* follows it with no sleep and no deadline check; afterwards the target
\* date never changes.  With an explicit date every poll is for that date.
C5_RollbackOnce ==
  /\ [][RollbackFires =>
          /\ pc = "check" /\ last_payload # "Ready" /\ attempts >= 1
          /\ create /\ args_date = <<>> /\ hour(now) < CutoffHour
          /\ rolled_at = 0
          /\ pc' = "poll" /\ now' = now /\ sleeps' = sleeps
          /\ loop_exit' = "none"]_vars
  /\ [][tried_yesterday =>
          /\ tried_yesterday' /\ gen_date' = gen_date
          /\ rolled_at' = rolled_at]_vars
  /\ [][(pc \in {"poll", "check"} /\ gen_date' # gen_date) => RollbackFires]_vars
  /\ [](args_date # <<>> =>
          /\ ~tried_yesterday
          /\ \A i \in 1 .. Len(polled_dates) : polled_dates[i] = args_date[1])

C5_Witness ==
  /\ tried_yesterday /\ rolled_at = 1 /\ attempts = 3 /\ pc = "check"
  /\ hour(now) < CutoffHour

\* C6 as stated: a run that ends on one of the paths success, CreateFailed,
\* Timeout, NotReady without create or KeyColumnMissing has written exactly
\* one metadata record.
C6_OneRecord ==
  (pc = "exit" /\ exit_status \in {"ok", "error"}) => metadata_writes = 1

\* how the polling phase was left: Ready after a successful poll, Timeout,
\* CreateFailed or NotReady without create, each with the state it implies
C7_Outcome ==
  /\ pc \in {"after", "save", "unzip", "diff", "final", "exit"} =>
        loop_exit \in {"ready", "timeout", "create_failed", "not_ready"}
  /\ pc \in {"start", "begin", "poll", "check"} => loop_exit = "none"
  /\ loop_exit = "ready" <=> success
  /\ success => last_payload = "Ready"
  /\ loop_exit = "timeout" =>
        create /\ last_payload # "Ready" /\ time_left <= 0 /\ attempts >= 1
  /\ loop_exit = "not_ready" =>
        ~create /\ last_payload # "Ready" /\ attempts = 1
  /\ loop_exit = "create_failed" =>
        create /\ create_http_status # HttpOk /\ attempts = 0

\* C7: every run eventually leaves the polling loop and exits (the clock
\* advances, a sleep lasts at least what was asked), and the loop is left as
\* exactly one of Ready after a successful poll, Timeout, CreateFailed or
\* NotReady without create.
C7_Terminates == <>(loop_exit # "none") /\ <>(pc = "exit") /\ []C7_Outcome

C7_Witness ==
  /\ loop_exit = "timeout" /\ pc = "exit" /\ sleeps >= 2

(***************************************************************************)
(* Properties of csv_diff.                                                 *)
(***************************************************************************)
\* the stripped key of row i of a file
RowKey(file, i) == Cell(RowDict(file.header, file.rows[i]), key_col)

\* the keys of the snapshot of a file
SnapshotKeys(file) ==
  {RowKey(file, i) : i \in {j \in 1 .. Len(file.rows) : file.rows[j] # <<>>}} \ {<<>>}

ChangedKeys == {r.key : r \in diff_info.changed}

Disjoint3(a, b, c) == a \cap b = {} /\ a \cap c = {} /\ b \cap c = {}

\* C8 as stated: the keys of new, removed and changed are pairwise disjoint
\* and their union is old_keys \cup new_keys.
C8_Original ==
  pc = "diffed" =>
     /\ Disjoint3(diff_info.new, diff_info.removed, ChangedKeys)
     /\ diff_info.new \cup diff_info.removed \cup ChangedKeys
          = SnapshotKeys(old_csv) \cup SnapshotKeys(new_csv)

\* C8 (amended): the keys of new, removed and changed are pairwise disjoint
\* and lie in old_keys \cup new_keys: new is new_keys - old_keys, removed is
\* old_keys - new_keys, changed lies within the shared keys; a shared key
\* without a differing field is in none of the three.
C8_DisjointWithinUnion ==
  pc = "diffed" =>
     LET O == SnapshotKeys(old_csv)
         N == SnapshotKeys(new_csv)
     IN /\ Disjoint3(diff_info.new, diff_info.removed, ChangedKeys)
        /\ diff_info.new = N \ O
        /\ diff_info.removed = O \ N
        /\ ChangedKeys \subseteq O \cap N
        /\ Cardinality(ChangedKeys) = Cardinality(diff_info.changed)

C8_Witness ==
  /\ pc = "diffed"
  /\ ChangedKeys # {}
  /\ (SnapshotKeys(old_csv) \cap SnapshotKeys(new_csv)) \ ChangedKeys # {}

Perms(n) == {p \in [1 .. n -> 1 .. n] : \A i, j \in 1 .. n : p[i] = p[j] => i = j}

Permuted(file, p) ==
  [file EXCEPT !.rows = [i \in 1 .. Len(file.rows) |-> file.rows[p[i]]]]

\* every reordering of the rows of either file gives the result in diff_info
OrderInsensitive ==
  \A po \in Perms(Len(old_csv.rows)), pn \in Perms(Len(new_csv.rows)),
     ord \in SetOrders :
       LET d == csv_diff(Permuted(old_csv, po), Permuted(new_csv, pn), key_col,
                         fields_to_compare, ord)
       IN /\ d.raised = diff_info.raised
          /\ d.new = diff_info.new
          /\ d.removed = diff_info.removed
          /\ d.changed = diff_info.changed

\* no two rows of the file have the same non-empty key
NoRepeatedKey(file) ==
  \A i, j \in 1 .. Len(file.rows) :
     (i < j /\ RowKey(file, i) # <<>>) => RowKey(file, i) # RowKey(file, j)

\* C9 as stated: for every pair of files, with repeated or empty keys too,
\* reordering the rows of either file gives the same new, removed and
\* changed sets with the same old/new values.
C9_Original == pc \in {"diffed", "raised"} => OrderInsensitive

\* C9 (amended): the same, for files in which no key is repeated (rows with
\* an empty key allowed).
C9_OrderInsensitiveNoRepeats ==
  (pc \in {"diffed", "raised"} /\ NoRepeatedKey(old_csv) /\ NoRepeatedKey(new_csv))
     => OrderInsensitive

C9_Witness ==
  /\ pc = "diffed"
  /\ NoRepeatedKey(old_csv) /\ NoRepeatedKey(new_csv)
  /\ Len(old_csv.rows) = 2 /\ Len(new_csv.rows) = 2
  /\ RowKey(new_csv, 1) = <<>>
  /\ ChangedKeys # {} /\ diff_info.removed # {}

\* C10: a file that has the key column, diffed against itself, gives empty
\* new, removed and changed sets, whatever the compare fields.
C10_SelfDiffEmpty ==
  (pc # "differ" /\ old_csv = new_csv /\ key_col \in Range(old_csv.header)) =>
     /\ pc = "diffed" /\ ~diff_info.raised
     /\ diff_info.new = {}
     /\ diff_info.removed = {}
     /\ diff_info.changed = {}

C10_Witness ==
  /\ pc = "diffed" /\ old_csv = new_csv
  /\ Len(old_csv.rows) = 2 /\ ~NoRepeatedKey(old_csv)
  /\ old_csv.rows[1] # old_csv.rows[2]
  /\ fields_to_compare = << "g", "f" >>

\* the index of the earliest row of the file whose stripped key is k
FirstRow(file, k) ==
  CHOOSE i \in 1 .. Len(file.rows) :
     /\ file.rows[i] # <<>> /\ RowKey(file, i) = k
     /\ \A j \in 1 .. (i - 1) : file.rows[j] = <<>> \/ RowKey(file, j) # k

\* the snapshot of the file holds the non-empty keys of its rows, each with
\* its earliest row
FirstOccurrenceKept(file) ==
  LET m == load_csv_as_map(file, key_col).rows
  IN /\ DOMAIN m = SnapshotKeys(file)
     /\ <<>> \notin DOMAIN m
     /\ \A k \in DOMAIN m :
          m[k] = RowDict(file.header, file.rows[FirstRow(file, k)])

\* the stripped cell of column c in the earliest row with key k
FirstCell(file, k, c) ==
  Strip(OrEmpty(Get(RowDict(file.header, file.rows[FirstRow(file, k)]), c)))

\* C11: when a snapshot is loaded, rows with an empty key are dropped and
\* for every key the stored row is the earliest row of the file with that
\* key; the comparison of a shared key uses the values of those rows.
C11_FirstOccurrenceWins ==
  pc = "diffed" =>
     /\ FirstOccurrenceKept(old_csv)
     /\ FirstOccurrenceKept(new_csv)
     /\ \A k \in SnapshotKeys(old_csv) \cap SnapshotKeys(new_csv) :
          \A c \in Range(diff_info.compare_fields) :
             LET a == FirstCell(old_csv, k, c)
                 b == FirstCell(new_csv, k, c)
             IN a # b <=>
                  \E r \in diff_info.changed :
                     /\ r.key = k /\ c \in DOMAIN r.diffs
                     /\ r.diffs[c] = << a, b >>

\* the old file has two rows with one key; the first differs from the new
\* file's row and the second does not; the new file starts with a keyless row
C11_Witness ==
  /\ pc = "diffed"
  /\ old_csv.header = << "k", "f" >> /\ new_csv.header = << "k", "f" >>
  /\ Len(old_csv.rows) = 2 /\ Len(new_csv.rows) = 2
  /\ RowKey(old_csv, 1) = << "A" >> /\ RowKey(old_csv, 2) = << "A" >>
  /\ RowKey(new_csv, 1) = <<>> /\ RowKey(new_csv, 2) = << "A" >>
  /\ Strip(old_csv.rows[2][2]) = Strip(new_csv.rows[2][2])
  /\ ChangedKeys = {<< "A" >>}
  /\ diff_info.new = {} /\ diff_info.removed = {}

\* the compared fields in which the earliest rows of key k differ once
\* stripped
DifferingFields(k) ==
  {c \in Range(diff_info.compare_fields) :
     FirstCell(old_csv, k, c) # FirstCell(new_csv, k, c)}

\* C12: a key shared by both snapshots is in the changed set if and only if
\* at least one resolved compare field differs between its old and new rows
\* after stripping; the changed row, in the result and in the changed file,
\* holds the stripped old and new values of exactly the differing fields.
C12_ChangedIffDiffers ==
  pc = "diffed" =>
     \A k \in SnapshotKeys(old_csv) \cap SnapshotKeys(new_csv) :
        LET D == DifferingFields(k)
            cf == diff_info.compare_fields
        IN /\ k \in ChangedKeys <=> D # {}
           /\ \A r \in diff_info.changed :
                r.key = k =>
                  /\ DOMAIN r.diffs = D
                  /\ \A c \in D :
                       r.diffs[c] = << FirstCell(old_csv, k, c),
                                       FirstCell(new_csv, k, c) >>
           /\ D # {} =>
                \E row \in out_files.changed.rows :
                   /\ Len(row) = 1 + 2 * Len(cf)
                   /\ row[1] = k
                   /\ \A i \in 1 .. Len(cf) :
                        IF cf[i] \in D
                          THEN /\ row[2 * i] = FirstCell(old_csv, k, cf[i])
                               /\ row[2 * i + 1] = FirstCell(new_csv, k, cf[i])
                          ELSE row[2 * i] = <<>> /\ row[2 * i + 1] = <<>>

\* one shared key; f differs in surrounding whitespace only, g differs
C12_Witness ==
  /\ pc = "diffed"
  /\ old_csv.header = << "k", "f", "g" >> /\ new_csv.header = << "k", "f", "g" >>
  /\ Len(old_csv.rows) = 1 /\ Len(new_csv.rows) = 1
  /\ RowKey(old_csv, 1) = << "A" >> /\ RowKey(new_csv, 1) = << "A" >>
  /\ old_csv.rows[1][2] # new_csv.rows[1][2]
  /\ Range(diff_info.compare_fields) = {"f", "g"}
  /\ DifferingFields(<< "A" >>) = {"g"}
  /\ \E r \in diff_info.changed : r.key = << "A" >> /\ DOMAIN r.diffs = {"g"}

(***************************************************************************)
(* Properties of the steps after the download.                             *)
(***************************************************************************)
\* the positions of the extracted members with the .csv extension
CsvMembers == {i \in 1 .. Len(files) : Lower(files[i].suffix) = ".csv"}

\* C13 as stated: after extraction the diff input is the first member, in
\* the order extraction returned, that has the .csv extension; none when no
\* member has it.
C13_FirstCsvChosen ==
  (pc \in {"diff", "final", "exit"} /\ files # <<>>) =>
     IF CsvMembers = {} THEN csv_path = <<>>
     ELSE csv_path =
            << files[CHOOSE i \in CsvMembers : \A j \in CsvMembers : i <= j] >>

\* the key column is absent from the header of the old or of the new file
KeyColumnMissing ==
  key_col \notin Range(old_csv.header) \/ key_col \notin Range(new_csv.header)

\* C14: when the key column is absent from the header of either file the
\* call fails with the key-column-missing error and computes no result, and
\* the call creates or modifies no new/removed/changed file: what was on
\* disk before is on disk after; the call fails in no other case.
C14_MissingKeyWritesNothing ==
  /\ [](pc # "differ" =>
          /\ pc = "raised" <=> KeyColumnMissing
          /\ pc = "raised" =>
               /\ diff_info.raised
               /\ diff_info.new = {} /\ diff_info.removed = {}
               /\ diff_info.changed = {} /\ diff_info.written = NoFiles
               /\ out_files \in {NoFiles, Stale})
  /\ [][(pc = "differ" /\ KeyColumnMissing) =>
          pc' = "raised" /\ out_files' = out_files]_vars

\* the old file has the key column and a row, the new file has no key
\* column, and the files of the earlier run are still on disk
C14_Witness ==
  /\ pc = "raised"
  /\ key_col \in Range(old_csv.header) /\ old_csv.rows # <<>>
  /\ key_col \notin Range(new_csv.header) /\ new_csv.rows # <<>>
  /\ out_files = Stale /\ out_files.changed.rows # {}

(***************************************************************************)
(* Further properties of the polling loop.                                 *)
(***************************************************************************)
\* the deadline: start + timeout
Deadline == start_time + timeout_s

\* a continuation check: after a failed poll, with create, and the rollback
\* does not fire
ContinuationCheck ==
  /\ pc = "check" /\ create /\ last_payload # "Ready"
  /\ ~(args_date = <<>> /\ ~tried_yesterday /\ hour(now) < CutoffHour)

\* C15: the loop is left with Timeout only at a continuation check where
\* the time remaining until the deadline is <= 0; at a continuation check
\* with time remaining the loop sleeps and the next step is a poll; a sleep
\* starts only before the deadline.
C15_TimeoutOnlyAtCheck ==
  /\ [][(loop_exit # "timeout" /\ loop_exit' = "timeout") =>
          ContinuationCheck /\ Deadline - now <= 0 /\ sleeps' = sleeps]_vars
  /\ [][(ContinuationCheck /\ Deadline - now > 0) =>
          /\ sleeps' = sleeps + 1 /\ now' >= now + SleepFloor
          /\ pc' = "poll" /\ loop_exit' = "none"]_vars
  /\ [][pc = "poll" => attempts' = attempts + 1]_vars
  /\ [][sleeps' # sleeps => ContinuationCheck /\ now < Deadline]_vars

\* a timeout found when the remaining time is exactly 0, after a sleep that
\* started before the deadline
C15_Witness ==
  /\ loop_exit = "timeout" /\ pc = "after"
  /\ now = Deadline /\ timeout_s > 0
  /\ sleeps = 1 /\ tried_yesterday

\* max(floor, configured interval)
FlooredInterval == IF interval_s >= SleepFloor THEN interval_s ELSE SleepFloor

\* C16: every sleep is between the return of a failed poll and the start of
\* the next poll and is a sleep of exactly max(60 s, configured interval),
\* which the timer may overshoot but never cuts short; so the next poll
\* starts no less than 60 s after the previous one returned, whatever the
\* interval (zero and negative included) and the time remaining.
C16_SleepIsFlooredInterval ==
  [][sleeps' # sleeps =>
       /\ sleeps' = sleeps + 1
       /\ pc = "check" /\ pc' = "poll"
       /\ \E over \in 0 .. MaxOversleep : now' = now + FlooredInterval + over
       /\ now' - now >= SleepFloor
       /\ now' - now >= interval_s]_vars

\* with a negative interval, a sleep of the floor taken when less than the
\* floor remained: the next poll is about to start past the deadline
C16_Witness ==
  /\ interval_s < 0 /\ timeout_s > 0
  /\ pc = "poll" /\ sleeps = 2
  /\ now - Deadline >= 30 /\ now - Deadline < SleepFloor

\* C17 as stated: once the rollback has fired, the target date is the day
\* immediately before the target date of the poll that had just failed.
C17_RollbackToDayBefore ==
  tried_yesterday => gen_date = polled_dates[rolled_at] - 1

(***************************************************************************)
(* Further properties of csv_diff.                                         *)
(***************************************************************************)
\* the columns in both headers
InBoth == Range(old_csv.header) \cap Range(new_csv.header)

\* C18 as stated: when a compare-field list is supplied, of any length, the
\* compared fields are the members of the list that are in both headers, in
\* list order; only when no list is supplied are they the columns in both
\* headers other than the key column.
C18_ExplicitListUsed ==
  pc = "diffed" =>
     IF fields_to_compare # NoneVal
       THEN diff_info.compare_fields
              = SelectSeq(fields_to_compare, LAMBDA c : c \in InBoth)
       ELSE /\ Range(diff_info.compare_fields) = InBoth \ {key_col}
            /\ Len(diff_info.compare_fields) = Cardinality(InBoth \ {key_col})

\* the three delta files are on disk; the new and the removed file hold the
\* key header and one line per key; the changed file holds one line per
\* changed row, and only the key header when no row changed
ThreeFilesWritten(disk, info) ==
  /\ DOMAIN disk = {"new", "removed", "changed"}
  /\ disk.new.header = << OutName(key_col, "") >>
  /\ Range(disk.new.rows) = info.new
  /\ Len(disk.new.rows) = Cardinality(info.new)
  /\ disk.removed.header = << OutName(key_col, "") >>
  /\ Range(disk.removed.rows) = info.removed
  /\ Len(disk.removed.rows) = Cardinality(info.removed)
  /\ Head(disk.changed.header) = OutName(key_col, "")
  /\ {row[1] : row \in disk.changed.rows} = {r.key : r \in info.changed}
  /\ info.changed = {} =>
        disk.changed = [header |-> << OutName(key_col, "") >>, rows |-> {}]
  /\ info.changed # {} =>
        Len(disk.changed.header) = 1 + 2 * Len(info.compare_fields)

\* C19: every call of csv_diff with the key column in both headers writes
\* the new, the removed and the changed file, whatever the sizes of the
\* three sets and whatever was on disk; with no changed row the changed
\* file holds only the key-column header.
C19_ThreeFilesAlways ==
  /\ [](pc = "diffed" => ThreeFilesWritten(out_files, diff_info))
  /\ [][(pc = "differ" /\ ~KeyColumnMissing) =>
          pc' = "diffed" /\ ThreeFilesWritten(out_files', diff_info')]_vars

\* both files have a row with the same key and no field differs: the three
\* sets are empty and the changed file holds its header only
C19_Witness ==
  /\ pc = "diffed"
  /\ SnapshotKeys(old_csv) \cap SnapshotKeys(new_csv) # {}
  /\ diff_info.new = {} /\ diff_info.removed = {} /\ diff_info.changed = {}
  /\ diff_info.compare_fields # <<>>
  /\ out_files.changed = [header |-> << OutName(key_col, "") >>, rows |-> {}]
  /\ out_files.new.rows = <<>> /\ out_files.removed.rows = <<>>

\* ceil(a / b) for b > 0
CeilDiv(a, b) == -((-a) \div b)

\* ceil(timeout / s) with s = max(60, interval)
SleepBound == CeilDiv(timeout_s, FlooredInterval)

\* C20 as stated: when a run that polled has ended, the number of its
\* sleeps is at most ceil(timeout / s), the number of its polls at most that
\* plus 2, and the attempt count is the number of polls.
C20_Original ==
  (pc = "exit" /\ attempts > 0) =>
     /\ sleeps <= SleepBound
     /\ Len(polled_dates) <= SleepBound + 2
     /\ attempts = Len(polled_dates)

\* C20 (amended): the number of sleeps of a run is at most
\* max(0, ceil(timeout / s)), the number of polls at most the number of
\* sleeps plus 1, plus 1 more when the rollback fired, hence at most that
\* bound plus 2; the attempt count is the number of polls.
C20_BoundedWork ==
  LET B == IF SleepBound > 0 THEN SleepBound ELSE 0
  IN /\ sleeps <= B
     /\ Len(polled_dates) <= sleeps + 1 + (IF tried_yesterday THEN 1 ELSE 0)
     /\ Len(polled_dates) <= B + 2
     /\ attempts = Len(polled_dates)

\* a run that reaches both bounds: timeout 180 s, sleeps of 60 s, the
\* first poll, the rollback poll and a poll after each of three sleeps
C20_Witness ==
  /\ timeout_s = 180 /\ FlooredInterval = SleepFloor
  /\ sleeps = 3 /\ attempts = 5 /\ tried_yesterday
  /\ loop_exit = "timeout" /\ pc = "exit" /\ metadata_writes = 1

====
